---- MODULE Spec2Model ----
(***************************************************************************)
(* Model of the RustDDS shapes interoperability program (src/main.rs):     *)
(* the pure motion function move_shape, the start-up velocity draw and the *)
(* poll-driven control loop with its Ctrl-C channel, reader and writer.    *)
(***************************************************************************)
EXTENDS Integers, Sequences, FiniteSets, TLC

VARIABLES
    pc,              \* where the program is: the step main executes next
    args,            \* the parsed command line (Args)
    registered,      \* how many times each token was registered with poll
    shape_sample,    \* the current Shape
    x_vel, y_vel,    \* the current velocity
    r,               \* the last result of move_shape
    overflow_checks, \* the build panics on i32 overflow (debug) or wraps (release)
    writer_opt,      \* TRUE: Some(writer); FALSE: None
    reader_opt,      \* TRUE: Some(reader); FALSE: None
    events,          \* the events of the last poll not yet dispatched
    readiness,       \* tokens whose source became ready and was not yet reported
    stop_receiver,   \* number of () messages queued in the Ctrl-C channel
    reader_buf,      \* samples buffered in the DataReader, oldest first
    reader_status,   \* status events queued in the DataReader
    writer_status,   \* status events queued in the DataWriter
    clock,           \* Instant::now(), in ms since last_write was initialised
    last_write,      \* the publish timer
    env,             \* what the environment has done so far (its budgets)
    h                \* history: what the loop did, for the properties

motion_vars == <<shape_sample, x_vel, y_vel, r>>

io_vars == <<events, readiness, stop_receiver, reader_buf, reader_status, writer_status>>

role_vars == <<args, registered, writer_opt, reader_opt>>

loop_vars == <<role_vars, clock, last_write, env, h>>

vars == <<pc, motion_vars, overflow_checks, io_vars, loop_vars>>

(***************************************************************************)
(* Program constants.                                                      *)
(***************************************************************************)
DA_WIDTH == 240

DA_HEIGHT == 270

InitShapeSize == 21

STOP_PROGRAM == 0

READER_READY == 1

READER_STATUS_READY == 2

WRITER_STATUS_READY == 3

\* Events::with_capacity(4)
EventsCapacity == 4

\* poll timeout, Duration::from_millis(200)
PollTimeoutMs == 200

\* publish interval, Duration::from_millis(200)
PublishIntervalMs == 200

\* i32 limits (TLC integers are 32-bit, so MinI32 is written without 2^31).
MaxI32 == 2147483647

MinI32 == -2147483647 - 1

\* the four tokens the program defines
Tokens == {STOP_PROGRAM, READER_READY, READER_STATUS_READY, WRITER_STATUS_READY}

\* enum Command { Publish, Subscribe }
Commands == {"Publish", "Subscribe"}

is_publisher(command) == command = "Publish"

is_subscriber(command) == command = "Subscribe"

\* the positions of main: its start-up statements, the creation of the endpoints,
\* the control loop, and the ways it ends
StartupPcs == {"init_logging", "participant", "assert_partition", "assert_interval",
               "assert_ownership", "topic", "set_handler", "poll_new", "register_stop",
               "match_command"}

EndpointPcs == {"create_writer", "create_reader"}

LoopPcs == {"poll", "dispatch", "take", "take_err", "reader_status", "writer_status", "move",
            "write"}

\* "stopped": return after Ctrl-C; "startup_failed": a panic of a start-up statement;
\* "not_implemented": todo!(); "panicked": a panic inside the loop
TerminalPcs == {"stopped", "startup_failed", "not_implemented", "panicked"}

\* the process runs: Ctrl-C, samples and status events can still reach it
Alive == pc \notin TerminalPcs

\* ctrlc::set_handler has installed the handler
HandlerInstalled ==
    pc \in {"poll_new", "register_stop", "match_command"} \cup EndpointPcs \cup LoopPcs

\* poll.register(source, token, Ready::readable(), PollOpt::edge())
Unregistered == [t \in Tokens |-> 0]

Register(reg, token) == [reg EXCEPT ![token] = @ + 1]

\* the options of Args that main asserts to be None (TRUE: Some)
NoOptions(command) ==
    [command |-> command, partition |-> FALSE, interval |-> FALSE, ownership_strength |-> FALSE]

(***************************************************************************)
(* Bounds of the model.                                                    *)
(***************************************************************************)
\* velocities -MaxVel..MaxVel are fed to move_shape (plus the i32 extremes)
MaxVel == 5

\* how far around each wall the input coordinates of move_shape are sampled
WallMargin == 1

\* what the environment does in a run: Ctrl-C presses, samples and status events
MaxEnvEvents == 3

\* calls of take_next_sample and write that fail in a run
MaxFailures == 1

\* the loop is followed until the clock passes MaxClock ms (MaxTimingClock
\* when only the publish timer is followed)
MaxClock == 450

MaxTimingClock == 850

\* status events that wake the loop when only the publish timer is followed
MaxTimingEvents == 3

\* when any poll result is dispatched: the events in a poll result, what the
\* environment does in a run, and the horizon
MaxPollResult == 2

MaxDispatchEvents == 2

MaxDispatchClock == 200

(***************************************************************************)
(* i32 arithmetic.  An overflowing + or unary - panics when the build has  *)
(* overflow checks (debug) and wraps otherwise (release).                  *)
(***************************************************************************)
AddOverflows(a, b) ==
    \/ b > 0 /\ a > MaxI32 - b
    \/ b < 0 /\ a < MinI32 - b

WrappingAdd(a, b) ==
    IF b > 0 /\ a > MaxI32 - b THEN MinI32 + ((a - (MaxI32 - b)) - 1)
    ELSE IF b < 0 /\ a < MinI32 - b THEN MaxI32 - (((MinI32 - b) - a) - 1)
    ELSE a + b

NegOverflows(a) == a = MinI32

\* (faulty variant for the mutation checks: the negation is forgotten)
WrappingNegForgotten(a) == a

WrappingNeg(a) == IF a = MinI32 THEN MinI32 ELSE -a

\* Rust's integer division truncates toward zero (b > 0 here).
TruncDiv(a, b) == IF a >= 0 THEN a \div b ELSE -((-a) \div b)

half_size(shapesize) == TruncDiv(shapesize, 2) + 1

(***************************************************************************)
(* Faulty variants of the definitions below, for the mutation checks.      *)
(***************************************************************************)
\* move_shape with one line changed:
\*   "no_upper_x"    the check of x against DA_WIDTH - half_size is missing
\*   "upper_y_edge"  y is clamped to DA_HEIGHT instead of DA_HEIGHT - half_size
\*   "stale_x"       the returned Shape takes shape.x instead of x
\*   "else_if_x"     the upper check of x is an else branch of the lower check
move_shape_changed(shape, xv, yv, oc, change) ==
    LET hs    == half_size(shape.shapesize)
        x0    == WrappingAdd(shape.x, xv)
        y0    == WrappingAdd(shape.y, yv)
        xlow  == x0 < hs
        x1    == IF xlow THEN hs ELSE x0
        xv1   == IF xlow THEN WrappingNeg(xv) ELSE xv
        xhigh == /\ change # "no_upper_x"
                 /\ change = "else_if_x" => ~xlow
                 /\ x1 > DA_WIDTH - hs
        x2    == IF xhigh THEN DA_WIDTH - hs ELSE x1
        xv2   == IF xhigh THEN WrappingNeg(xv) ELSE xv1
        ylow  == y0 < hs
        y1    == IF ylow THEN hs ELSE y0
        yv1   == IF ylow THEN WrappingNeg(yv) ELSE yv
        yhigh == y1 > DA_HEIGHT - hs
        y2    == IF yhigh
                 THEN (IF change = "upper_y_edge" THEN DA_HEIGHT ELSE DA_HEIGHT - hs)
                 ELSE y1
        yv2   == IF yhigh THEN WrappingNeg(yv) ELSE yv1
        ovf   == \/ AddOverflows(shape.x, xv)
                 \/ AddOverflows(shape.y, yv)
                 \/ (xlow \/ xhigh) /\ NegOverflows(xv)
                 \/ (ylow \/ yhigh) /\ NegOverflows(yv)
    IN  IF oc /\ ovf
        THEN [panicked |-> TRUE]
        ELSE [panicked |-> FALSE,
              shape    |-> [color |-> shape.color,
                            x |-> IF change = "stale_x" THEN shape.x ELSE x2,
                            y |-> y2,
                            shapesize |-> shape.shapesize],
              xv_new   |-> xv2,
              yv_new   |-> yv2]

move_shape_no_upper_x(shape, xv, yv, oc) == move_shape_changed(shape, xv, yv, oc, "no_upper_x")

move_shape_upper_y_edge(shape, xv, yv, oc) ==
    move_shape_changed(shape, xv, yv, oc, "upper_y_edge")

move_shape_stale_x(shape, xv, yv, oc) == move_shape_changed(shape, xv, yv, oc, "stale_x")

move_shape_else_if_x(shape, xv, yv, oc) == move_shape_changed(shape, xv, yv, oc, "else_if_x")

(***************************************************************************)
(* fn move_shape(shape, xv, yv) -> (Shape, i32, i32).  oc: the build has   *)
(* overflow checks.  The result is the returned triple, or a panic.        *)
(***************************************************************************)
move_shape(shape, xv, yv, oc) ==
    LET hs    == half_size(shape.shapesize)
        x0    == WrappingAdd(shape.x, xv)
        y0    == WrappingAdd(shape.y, yv)
        xlow  == x0 < hs
        x1    == IF xlow THEN hs ELSE x0
        xv1   == IF xlow THEN WrappingNeg(xv) ELSE xv
        xhigh == x1 > DA_WIDTH - hs
        x2    == IF xhigh THEN DA_WIDTH - hs ELSE x1
        xv2   == IF xhigh THEN WrappingNeg(xv) ELSE xv1
        ylow  == y0 < hs
        y1    == IF ylow THEN hs ELSE y0
        yv1   == IF ylow THEN WrappingNeg(yv) ELSE yv
        yhigh == y1 > DA_HEIGHT - hs
        y2    == IF yhigh THEN DA_HEIGHT - hs ELSE y1
        yv2   == IF yhigh THEN WrappingNeg(yv) ELSE yv1
        ovf   == \/ AddOverflows(shape.x, xv)
                 \/ AddOverflows(shape.y, yv)
                 \/ (xlow \/ xhigh) /\ NegOverflows(xv)
                 \/ (ylow \/ yhigh) /\ NegOverflows(yv)
    IN  IF oc /\ ovf
        THEN [panicked |-> TRUE]
        ELSE [panicked |-> FALSE,
              shape    |-> [color |-> shape.color, x |-> x2, y |-> y2,
                            shapesize |-> shape.shapesize],
              xv_new   |-> xv2,
              yv_new   |-> yv2]

NoResult == [panicked |-> FALSE, none |-> TRUE]

(***************************************************************************)
(* Start-up: the initial shape and the velocity lottery.                   *)
(***************************************************************************)
\* rand's gen_range(lo..hi) draws from the half-open range lo..hi
gen_range(lo, hi) == lo .. (hi - 1)

\* if random() { gen_range(1..5) } else { gen_range(-5..-1) }
VelDraw == gen_range(1, 5) \cup gen_range(-5, -1)

\* the draws the control-loop specifications start from: the extremes of the lottery
LoopVelDraw == {v \in VelDraw : (\A w \in VelDraw : v <= w) \/ (\A w \in VelDraw : v >= w)}

InitShape(color) == [color |-> color, x |-> 0, y |-> 0, shapesize |-> InitShapeSize]

(***************************************************************************)
(* Environment budgets and the history the properties read.                *)
(***************************************************************************)
\* what the environment may still do: Ctrl-C presses, samples and status events to
\* deliver, calls to fail, and the clock value up to which the loop is followed
EnvBudget(events_left, failures_left, horizon) ==
    [events |-> events_left, failures |-> failures_left, horizon |-> horizon,
     reader_failed |-> FALSE]   \* the DataReader fails at every call from now on

EnvInit == EnvBudget(0, 0, 0)

HistInit == [delivered      |-> FALSE, \* the Ctrl-C handler has sent
             arrived        |-> 0,     \* samples delivered to the reader so far
             wait_after     |-> 0,     \* how long the polls since that send have waited
             polls_after    |-> 0,     \* poll returns since that delivery
             writes_after   |-> 0,     \* writes attempted since that delivery
             drains_after   |-> 0,     \* take / try_recv_status calls since then
             late_writes    |-> 0,     \* ... of them, after a poll that followed it
             late_drains    |-> 0,
             n_writes       |-> 0,     \* successful writes
             n_attempts     |-> 0,     \* calls of writer.write
             attempt_at     |-> <<>>,  \* the time of the last call of writer.write
             iter_events    |-> 0,     \* events the poll of this iteration returned
             iter_moves     |-> 0,     \* motion steps of this iteration
             iter_tokens    |-> <<>>,  \* tokens dispatched so far from this poll result
             wake_buf       |-> <<>>,  \* reader_buf when the take loop was entered
             drain_arrivals |-> <<>>,  \* samples that arrived during the take loop
             drain_log      |-> <<>>]  \* results of take_next_sample in that loop

(***************************************************************************)
(* Inputs of the move_shape specification.                                 *)
(***************************************************************************)
Sizes == {InitShapeSize, 30, 250, 300}

Vels == (-MaxVel .. MaxVel) \cup {MinI32, MaxI32}

NearWalls(bound) ==
    UNION { ((half_size(s) - WallMargin) .. (half_size(s) + WallMargin))
            \cup ((bound - half_size(s) - WallMargin) .. (bound - half_size(s) + WallMargin))
            : s \in Sizes }

XCoords == NearWalls(DA_WIDTH) \cup {0, 14, 120}

YCoords == NearWalls(DA_HEIGHT) \cup {0, 14, 135}

(***************************************************************************)
(* Specification of move_shape on its own: any shape, any velocities.      *)
(***************************************************************************)
LoopIdle ==
    /\ args = NoOptions("Publish")
    /\ registered = Unregistered
    /\ writer_opt = FALSE
    /\ reader_opt = FALSE
    /\ events = <<>>
    /\ readiness = {}
    /\ stop_receiver = 0
    /\ reader_buf = <<>>
    /\ reader_status = 0
    /\ writer_status = 0
    /\ clock = 0
    /\ last_write = 0
    /\ env = EnvInit
    /\ h = HistInit

InitPure ==
    /\ LoopIdle
    /\ pc = "call"
    /\ shape_sample \in [color : {"BLUE"}, x : XCoords, y : YCoords, shapesize : Sizes]
    /\ x_vel \in Vels
    /\ y_vel \in Vels
    /\ overflow_checks \in BOOLEAN
    /\ r = NoResult

CallMoveShape ==
    /\ pc = "call"
    /\ r' = move_shape(shape_sample, x_vel, y_vel, overflow_checks)
    /\ pc' = "ret"
    /\ UNCHANGED <<shape_sample, x_vel, y_vel, overflow_checks, io_vars, loop_vars>>

NextPure == CallMoveShape

SpecPure == InitPure /\ [][NextPure]_vars

(***************************************************************************)
(* The motion step of the control loop, iterated from the start-up state.  *)
(***************************************************************************)
\* (faulty variant for the mutation checks: r.1 and r.2 are swapped)
MotionStepSwapped ==
    /\ r' = move_shape(shape_sample, x_vel, y_vel, overflow_checks)
    /\ ~r'.panicked
    /\ shape_sample' = r'.shape
    /\ x_vel' = r'.yv_new
    /\ y_vel' = r'.xv_new

MotionStep ==
    /\ r' = move_shape(shape_sample, x_vel, y_vel, overflow_checks)
    /\ ~r'.panicked
    /\ shape_sample' = r'.shape
    /\ x_vel' = r'.xv_new
    /\ y_vel' = r'.yv_new

InitMotion ==
    /\ LoopIdle
    /\ pc = "move"
    /\ shape_sample = InitShape("BLUE")
    /\ x_vel \in VelDraw
    /\ y_vel \in VelDraw
    /\ overflow_checks = TRUE
    /\ r = NoResult

NextMotion == MotionStep /\ UNCHANGED <<pc, overflow_checks, io_vars, loop_vars>>

SpecMotion == InitMotion /\ [][NextMotion]_vars

(***************************************************************************)
(* The control loop.  The environment: the Ctrl-C handler thread, the      *)
(* DataReader and DataWriter filled by the middleware's threads.           *)
(***************************************************************************)
Orderings(S) ==
    { q \in [1 .. Cardinality(S) -> S] : \A i, j \in 1 .. Cardinality(S) : q[i] = q[j] => i = j }

Min(a, b) == IF a <= b THEN a ELSE b

Range(q) == {q[i] : i \in DOMAIN q}

\* how long a poll that returns events has waited
WakeDelays == {0, PollTimeoutMs \div 2, PollTimeoutMs}

\* how long a poll that times out has waited: the timeout and the timer's slack
TimeoutDelays == {PollTimeoutMs + 1}

Delivered == h.delivered

\* (faulty variant for the mutation checks: stop_receiver is not registered with poll)
CtrlCUnregistered ==
    /\ Alive /\ HandlerInstalled
    /\ env.events > 0
    /\ stop_receiver' = stop_receiver + 1
    /\ env' = [env EXCEPT !.events = @ - 1]
    /\ h' = [h EXCEPT !.delivered = TRUE]
    /\ UNCHANGED <<pc, motion_vars, overflow_checks, events, readiness, reader_buf,
                   reader_status, writer_status, role_vars, clock, last_write>>

\* ctrlc handler: stop_sender.send(()).unwrap_or(())
CtrlC ==
    /\ Alive /\ HandlerInstalled
    /\ env.events > 0
    /\ stop_receiver' = stop_receiver + 1
    /\ readiness' = IF registered[STOP_PROGRAM] > 0
                    THEN readiness \cup {STOP_PROGRAM}
                    ELSE readiness
    /\ env' = [env EXCEPT !.events = @ - 1]
    /\ h' = [h EXCEPT !.delivered = TRUE]
    /\ UNCHANGED <<pc, motion_vars, overflow_checks, events, reader_buf, reader_status,
                   writer_status, role_vars, clock, last_write>>

\* the middleware delivers a sample to the DataReader
SampleArrives ==
    /\ Alive
    /\ reader_opt
    /\ env.events > 0
    /\ reader_buf' = Append(reader_buf, h.arrived + 1)
    /\ readiness' = readiness \cup {READER_READY}
    /\ env' = [env EXCEPT !.events = @ - 1]
    /\ h' = IF pc \in {"take", "take_err"}
            THEN [h EXCEPT !.arrived = @ + 1, !.drain_arrivals = Append(@, h.arrived + 1)]
            ELSE [h EXCEPT !.arrived = @ + 1]
    /\ UNCHANGED <<pc, motion_vars, overflow_checks, events, stop_receiver, reader_status,
                   writer_status, role_vars, clock, last_write>>

ReaderStatusArrives ==
    /\ Alive
    /\ reader_opt
    /\ env.events > 0
    /\ reader_status' = reader_status + 1
    /\ readiness' = readiness \cup {READER_STATUS_READY}
    /\ env' = [env EXCEPT !.events = @ - 1]
    /\ UNCHANGED <<pc, motion_vars, overflow_checks, events, stop_receiver, reader_buf,
                   writer_status, role_vars, clock, last_write, h>>

\* the DataReader gets into a state in which every take_next_sample returns Err
ReaderFails ==
    /\ Alive
    /\ reader_opt
    /\ ~env.reader_failed
    /\ env' = [env EXCEPT !.reader_failed = TRUE]
    /\ UNCHANGED <<pc, motion_vars, overflow_checks, io_vars, role_vars, clock, last_write, h>>

WriterStatusArrives ==
    /\ Alive
    /\ writer_opt
    /\ env.events > 0
    /\ writer_status' = writer_status + 1
    /\ readiness' = readiness \cup {WRITER_STATUS_READY}
    /\ env' = [env EXCEPT !.events = @ - 1]
    /\ UNCHANGED <<pc, motion_vars, overflow_checks, events, stop_receiver, reader_buf,
                   reader_status, role_vars, clock, last_write, h>>

AfterPoll(hist, d) ==
    IF Delivered THEN [hist EXCEPT !.polls_after = @ + 1, !.wait_after = @ + d] ELSE hist

Late(hist) == IF hist.polls_after > 0 THEN 1 ELSE 0

Dispatched(hist, token) == [hist EXCEPT !.iter_tokens = Append(@, token)]

AfterDrain(hist) ==
    IF Delivered
    THEN [hist EXCEPT !.drains_after = @ + 1, !.late_drains = @ + Late(hist)]
    ELSE hist

AfterWrite(hist) ==
    IF Delivered
    THEN [hist EXCEPT !.writes_after = @ + 1, !.late_writes = @ + Late(hist)]
    ELSE hist

\* poll.poll(&mut events, Some(200 ms)): some source is ready; its events are
\* returned (edge-triggered: each readiness is reported once), in any order
PollReady ==
    /\ pc = "poll"
    /\ readiness # {}
    /\ \E T \in SUBSET readiness :
         /\ Cardinality(T) = Min(Cardinality(readiness), EventsCapacity)
         /\ \E q \in Orderings(T) : events' = q
         /\ readiness' = readiness \ T
    /\ \E d \in WakeDelays :
         /\ clock + d <= env.horizon
         /\ clock' = clock + d
         /\ h' = AfterPoll([h EXCEPT !.iter_events = Len(events')], d)
    /\ pc' = "dispatch"
    /\ UNCHANGED <<motion_vars, overflow_checks, stop_receiver, reader_buf, reader_status,
                   writer_status, role_vars, last_write, env>>

\* poll.poll(...): nothing became ready within the timeout
PollTimeout ==
    /\ pc = "poll"
    /\ readiness = {}
    /\ \E d \in TimeoutDelays :
         /\ clock + d <= env.horizon
         /\ clock' = clock + d
         /\ h' = AfterPoll(h, d)
    /\ events' = <<>>
    /\ pc' = "dispatch"
    /\ UNCHANGED <<motion_vars, overflow_checks, readiness, stop_receiver, reader_buf,
                   reader_status, writer_status, role_vars, last_write, env>>

\* a token that is none of the four (the other_token arm of the match)
OtherToken == WRITER_STATUS_READY + 1

\* poll.poll(..) seen from the match that dispatches its result: poll may report a
\* source that is not ready, and the match has arms for the tokens of an absent
\* endpoint and for unknown tokens; the result is any sequence of tokens
PollAnyTokens ==
    /\ pc = "poll"
    /\ \E n \in 1 .. MaxPollResult :
         \E q \in [1 .. n -> Tokens \cup {OtherToken}] :
           /\ events' = q
           /\ readiness' = readiness \ Range(q)
    /\ clock + PollTimeoutMs <= env.horizon
    /\ clock' = clock + PollTimeoutMs
    /\ h' = AfterPoll([h EXCEPT !.iter_events = Len(events')], PollTimeoutMs)
    /\ pc' = "dispatch"
    /\ UNCHANGED <<motion_vars, overflow_checks, stop_receiver, reader_buf, reader_status,
                   writer_status, role_vars, last_write, env>>

\* poll.poll(...).unwrap(): the wait itself fails and unwrap panics
PollErr ==
    /\ pc = "poll"
    /\ env.failures > 0
    /\ env' = [env EXCEPT !.failures = @ - 1]
    /\ pc' = "panicked"
    /\ UNCHANGED <<motion_vars, overflow_checks, io_vars, role_vars, clock, last_write, h>>

\* (faulty variant for the mutation checks: Ok(_) does not return)
DispatchStopNoReturn ==
    /\ pc = "dispatch"
    /\ events # <<>>
    /\ Head(events) = STOP_PROGRAM
    /\ stop_receiver' = IF stop_receiver > 0 THEN stop_receiver - 1 ELSE stop_receiver
    /\ pc' = "dispatch"
    /\ events' = Tail(events)
    /\ UNCHANGED <<motion_vars, overflow_checks, readiness, reader_buf, reader_status,
                   writer_status, loop_vars>>

\* (faulty variant for the mutation checks: Ok(_) breaks out of the for loop only)
DispatchStopBreak ==
    /\ pc = "dispatch"
    /\ events # <<>>
    /\ Head(events) = STOP_PROGRAM
    /\ IF stop_receiver > 0
       THEN /\ stop_receiver' = stop_receiver - 1
            /\ pc' = "move"
            /\ events' = <<>>
       ELSE /\ stop_receiver' = stop_receiver
            /\ pc' = "dispatch"
            /\ events' = Tail(events)
    /\ UNCHANGED <<motion_vars, overflow_checks, readiness, reader_buf, reader_status,
                   writer_status, loop_vars>>

\* STOP_PROGRAM => match stop_receiver.try_recv() { Ok(_) => return, Err(_) => {} }
DispatchStop ==
    /\ pc = "dispatch"
    /\ events # <<>>
    /\ Head(events) = STOP_PROGRAM
    /\ IF stop_receiver > 0
       THEN /\ stop_receiver' = stop_receiver - 1
            /\ pc' = "stopped"
            /\ events' = events
       ELSE /\ stop_receiver' = stop_receiver
            /\ pc' = "dispatch"
            /\ events' = Tail(events)
    /\ h' = Dispatched(h, STOP_PROGRAM)
    /\ UNCHANGED <<motion_vars, overflow_checks, readiness, reader_buf, reader_status,
                   writer_status, role_vars, clock, last_write, env>>

\* the log of a take loop records the reads of a failed reader up to DrainLogCap entries:
\* the reads after that repeat the last one and leave the state as it is
DrainLogCap == MaxEnvEvents + MaxFailures + 2

LogRepeated(log, e) == IF Len(log) < DrainLogCap THEN Append(log, e) ELSE log

\* READER_READY => match reader_opt { Some(reader) => loop {...}, None => error!() }
DispatchReaderReady ==
    /\ pc = "dispatch"
    /\ events # <<>>
    /\ Head(events) = READER_READY
    /\ events' = Tail(events)
    /\ IF reader_opt
       THEN /\ pc' = "take"
            /\ h' = Dispatched([h EXCEPT !.wake_buf = reader_buf, !.drain_arrivals = <<>>,
                                         !.drain_log = <<>>], READER_READY)
       ELSE /\ pc' = "dispatch"
            /\ h' = Dispatched(h, READER_READY)
    /\ UNCHANGED <<motion_vars, overflow_checks, readiness, stop_receiver, reader_buf,
                   reader_status, writer_status, role_vars, clock, last_write, env>>

\* (faulty variant for the mutation checks: one sample is taken per wake-up, no loop)
TakeSampleOnce ==
    /\ pc = "take"
    /\ ~env.reader_failed
    /\ reader_buf # <<>>
    /\ reader_buf' = Tail(reader_buf)
    /\ pc' = "dispatch"
    /\ h' = AfterDrain([h EXCEPT !.drain_log = Append(@, <<"sample", Head(reader_buf)>>)])
    /\ UNCHANGED <<motion_vars, overflow_checks, events, readiness, stop_receiver,
                   reader_status, writer_status, role_vars, clock, last_write, env>>

\* reader.take_next_sample() => Ok(Some(sample)): print it (a value or a disposed key)
TakeSample ==
    /\ pc = "take"
    /\ ~env.reader_failed
    /\ reader_buf # <<>>
    /\ reader_buf' = Tail(reader_buf)
    /\ h' = AfterDrain([h EXCEPT !.drain_log = Append(@, <<"sample", Head(reader_buf)>>)])
    /\ UNCHANGED <<pc, motion_vars, overflow_checks, events, readiness, stop_receiver,
                   reader_status, writer_status, role_vars, clock, last_write, env>>

\* reader.take_next_sample() => Ok(None) => break
TakeNone ==
    /\ pc = "take"
    /\ ~env.reader_failed
    /\ reader_buf = <<>>
    /\ pc' = "dispatch"
    /\ h' = AfterDrain([h EXCEPT !.drain_log = Append(@, <<"none", 0>>)])
    /\ UNCHANGED <<motion_vars, overflow_checks, io_vars, role_vars, clock,
                   last_write, env>>

\* reader.take_next_sample() => Err(e): the call fails
TakeErr ==
    /\ pc = "take"
    /\ pc' = "take_err"
    /\ IF env.reader_failed
       THEN /\ env' = env
            /\ h' = AfterDrain([h EXCEPT !.drain_log = LogRepeated(@, <<"err", 0>>)])
       ELSE /\ env.failures > 0
            /\ env' = [env EXCEPT !.failures = @ - 1]
            /\ h' = AfterDrain([h EXCEPT !.drain_log = Append(@, <<"err", 0>>)])
    /\ UNCHANGED <<motion_vars, overflow_checks, io_vars, role_vars, clock, last_write>>

\* Err(e) => println!("DataReader error {:?}", e): the arm has no break, the take loop
\* goes round again
TakeErrPrinted ==
    /\ pc = "take_err"
    /\ pc' = "take"
    /\ UNCHANGED <<motion_vars, overflow_checks, io_vars, loop_vars>>

\* READER_STATUS_READY => match reader_opt { Some(reader) => while let ..., None => error!() }
DispatchReaderStatus ==
    /\ pc = "dispatch"
    /\ events # <<>>
    /\ Head(events) = READER_STATUS_READY
    /\ events' = Tail(events)
    /\ pc' = IF reader_opt THEN "reader_status" ELSE "dispatch"
    /\ h' = Dispatched(h, READER_STATUS_READY)
    /\ UNCHANGED <<motion_vars, overflow_checks, readiness, stop_receiver, reader_buf,
                   reader_status, writer_status, role_vars, clock, last_write, env>>

\* while let Some(status) = reader.try_recv_status() { println!(...) }
ReaderTryRecvStatus ==
    /\ pc = "reader_status"
    /\ IF reader_status > 0
       THEN /\ reader_status' = reader_status - 1
            /\ pc' = "reader_status"
       ELSE /\ reader_status' = reader_status
            /\ pc' = "dispatch"
    /\ h' = AfterDrain(h)
    /\ UNCHANGED <<motion_vars, overflow_checks, events, readiness, stop_receiver, reader_buf,
                   writer_status, role_vars, clock, last_write, env>>

\* WRITER_STATUS_READY => match writer_opt { Some(writer) => while let ..., None => error!() }
DispatchWriterStatus ==
    /\ pc = "dispatch"
    /\ events # <<>>
    /\ Head(events) = WRITER_STATUS_READY
    /\ events' = Tail(events)
    /\ pc' = IF writer_opt THEN "writer_status" ELSE "dispatch"
    /\ h' = Dispatched(h, WRITER_STATUS_READY)
    /\ UNCHANGED <<motion_vars, overflow_checks, readiness, stop_receiver, reader_buf,
                   reader_status, writer_status, role_vars, clock, last_write, env>>

\* while let Some(status) = writer.try_recv_status() { println!(...) }
WriterTryRecvStatus ==
    /\ pc = "writer_status"
    /\ IF writer_status > 0
       THEN /\ writer_status' = writer_status - 1
            /\ pc' = "writer_status"
       ELSE /\ writer_status' = writer_status
            /\ pc' = "dispatch"
    /\ h' = AfterDrain(h)
    /\ UNCHANGED <<motion_vars, overflow_checks, events, readiness, stop_receiver, reader_buf,
                   reader_status, role_vars, clock, last_write, env>>

\* the for loop over the events ends
DispatchDone ==
    /\ pc = "dispatch"
    /\ events = <<>>
    /\ pc' = "move"
    /\ h' = [h EXCEPT !.wake_buf = <<>>, !.drain_arrivals = <<>>, !.drain_log = <<>>,
                      !.iter_tokens = <<>>]
    /\ UNCHANGED <<motion_vars, overflow_checks, io_vars, role_vars, clock,
                   last_write, env>>

\* (faulty variant for the mutation checks: an unknown token is treated as unreachable!())
DispatchOtherPanics ==
    /\ pc = "dispatch"
    /\ events # <<>>
    /\ Head(events) \notin Tokens
    /\ events' = Tail(events)
    /\ pc' = "panicked"
    /\ h' = Dispatched(h, Head(events))
    /\ UNCHANGED <<motion_vars, overflow_checks, readiness, stop_receiver, reader_buf,
                   reader_status, writer_status, role_vars, clock, last_write, env>>

\* other_token => println!("Polled event is {:?}. WTF?", other_token)
DispatchOther ==
    /\ pc = "dispatch"
    /\ events # <<>>
    /\ Head(events) \notin Tokens
    /\ events' = Tail(events)
    /\ pc' = "dispatch"
    /\ h' = Dispatched(h, Head(events))
    /\ UNCHANGED <<motion_vars, overflow_checks, readiness, stop_receiver, reader_buf,
                   reader_status, writer_status, role_vars, clock, last_write, env>>

\* (faulty variant for the mutation checks: the shape moves only when poll returned events)
MoveStepOnlyOnEvents ==
    /\ pc = "move"
    /\ pc' = "write"
    /\ IF h.iter_events > 0
       THEN /\ MotionStep
            /\ h' = [h EXCEPT !.iter_moves = @ + 1]
       ELSE UNCHANGED <<motion_vars, h>>
    /\ UNCHANGED <<overflow_checks, io_vars, role_vars, clock, last_write, env>>

\* let r = move_shape(shape_sample, x_vel, y_vel); shape_sample = r.0; x_vel = r.1; y_vel = r.2
MoveStep ==
    /\ pc = "move"
    /\ MotionStep
    /\ pc' = "write"
    /\ h' = [h EXCEPT !.iter_moves = @ + 1]
    /\ UNCHANGED <<overflow_checks, io_vars, role_vars, clock, last_write, env>>

\* (faulty variant for the mutation checks: the interval is not added)
IntervalElapsedNoInterval(last, now) == last < now

\* (faulty variant for the mutation checks: half the interval is waited for)
IntervalElapsedHalf(last, now) == last + (PublishIntervalMs \div 2) < now

\* the publish timer has run out: last_write + 200 ms < now
IntervalElapsed(last, now) == last + PublishIntervalMs < now

\* match writer_opt { Some(writer) => { let now = Instant::now();
\*   if last_write + 200 ms < now { writer.write(..).unwrap_or_else(..); last_write = now } } .. }
WriteStep ==
    /\ pc = "write"
    /\ pc' = "poll"
    /\ IF writer_opt /\ IntervalElapsed(last_write, clock)
       THEN /\ last_write' = clock
            /\ \E ok \in BOOLEAN :
                 /\ ~ok => env.failures > 0
                 /\ env' = IF ok THEN env ELSE [env EXCEPT !.failures = @ - 1]
                 /\ h' = AfterWrite([h EXCEPT !.n_writes = IF ok THEN @ + 1 ELSE @,
                                              !.n_attempts = @ + 1,
                                              !.attempt_at = <<clock>>,
                                              !.iter_events = 0, !.iter_moves = 0])
       ELSE /\ last_write' = last_write
            /\ env' = env
            /\ h' = [h EXCEPT !.iter_events = 0, !.iter_moves = 0]
    /\ UNCHANGED <<motion_vars, overflow_checks, io_vars, role_vars, clock>>

\* the state when the loop is entered; the velocity is one of the extremes of the draw
LoopStart ==
    /\ shape_sample = InitShape("BLUE")
    /\ x_vel \in LoopVelDraw
    /\ y_vel \in LoopVelDraw
    /\ r = NoResult
    /\ overflow_checks = TRUE
    /\ events = <<>>
    /\ readiness = {}
    /\ stop_receiver = 0
    /\ reader_buf = <<>>
    /\ reader_status = 0
    /\ writer_status = 0
    /\ clock = 0
    /\ last_write = 0
    /\ h = HistInit

\* let mut writer_opt = if is_publisher { ... poll.register(writer.as_status_evented(),
\*   WRITER_STATUS_READY, ..).unwrap(); Some(writer) } else { None }
CreateWriter ==
    /\ pc = "create_writer"
    /\ IF is_publisher(args.command)
       THEN \E ok \in BOOLEAN :
              IF ok
              THEN /\ writer_opt' = TRUE
                   /\ registered' = Register(registered, WRITER_STATUS_READY)
                   /\ pc' = "create_reader"
              ELSE /\ pc' = "startup_failed"
                   /\ UNCHANGED <<writer_opt, registered>>
       ELSE /\ writer_opt' = FALSE
            /\ pc' = "create_reader"
            /\ UNCHANGED registered
    /\ UNCHANGED <<motion_vars, overflow_checks, io_vars, args, reader_opt, clock, last_write,
                   env, h>>

\* (faulty variant for the mutation checks: both registrations use READER_READY)
CreateReaderOneToken ==
    /\ pc = "create_reader"
    /\ IF is_subscriber(args.command)
       THEN /\ reader_opt' = TRUE
            /\ registered' = Register(Register(registered, READER_READY), READER_READY)
            /\ pc' = "poll"
       ELSE /\ reader_opt' = FALSE
            /\ pc' = "poll"
            /\ UNCHANGED registered
    /\ UNCHANGED <<motion_vars, overflow_checks, io_vars, args, writer_opt, clock, last_write,
                   env, h>>

\* let mut reader_opt = if is_subscriber { ... poll.register(&reader, READER_READY, ..);
\*   poll.register(reader.as_status_evented(), READER_STATUS_READY, ..); Some(reader) }
\*   else { None }; then the shape, the velocity and last_write are initialised
CreateReader ==
    /\ pc = "create_reader"
    /\ IF is_subscriber(args.command)
       THEN \E ok \in BOOLEAN :
              IF ok
              THEN /\ reader_opt' = TRUE
                   /\ registered' = Register(Register(registered, READER_READY),
                                             READER_STATUS_READY)
                   /\ pc' = "poll"
              ELSE /\ pc' = "startup_failed"
                   /\ UNCHANGED <<reader_opt, registered>>
       ELSE /\ reader_opt' = FALSE
            /\ pc' = "poll"
            /\ UNCHANGED registered
    /\ UNCHANGED <<motion_vars, overflow_checks, io_vars, args, writer_opt, clock, last_write,
                   env, h>>

\* the state after the start-up statements of main: STOP_PROGRAM is registered and the
\* command is matched
Init ==
    /\ LoopStart
    /\ pc = "create_writer"
    /\ \E command \in Commands : args = NoOptions(command)
    /\ registered = Register(Unregistered, STOP_PROGRAM)
    /\ writer_opt = FALSE
    /\ reader_opt = FALSE
    /\ env = EnvBudget(MaxEnvEvents, MaxFailures, MaxClock)

Environment == CtrlC \/ SampleArrives \/ ReaderStatusArrives \/ WriterStatusArrives

Endpoints == CreateWriter \/ CreateReader

Loop ==
    \/ PollReady \/ PollTimeout \/ PollErr
    \/ DispatchStop \/ DispatchReaderReady \/ DispatchReaderStatus \/ DispatchWriterStatus
    \/ TakeSample \/ TakeNone \/ TakeErr \/ TakeErrPrinted
    \/ ReaderTryRecvStatus \/ WriterTryRecvStatus
    \/ DispatchDone \/ MoveStep \/ WriteStep

Next == Environment \/ Endpoints \/ Loop

Spec == Init /\ [][Next]_vars

(***************************************************************************)
(* The statements of main up to the match on the command (lines 155-237).  *)
(* A failing statement panics: "startup_failed".                           *)
(***************************************************************************)
\* a start-up statement that leaves everything but pc and the poll registrations alone
StartupStep(next_pc) ==
    /\ pc' = next_pc
    /\ UNCHANGED <<motion_vars, overflow_checks, events, stop_receiver, reader_buf,
                   reader_status, writer_status, args, writer_opt, reader_opt, clock,
                   last_write, env, h>>

\* log4rs::init_file(..).unwrap_or_else(..): a missing file gives the default
\* configuration, any other error panics with "Config problem"
InitLogging ==
    /\ pc = "init_logging"
    /\ \E outcome \in {"ok", "not_found", "other_error"} :
         StartupStep(IF outcome = "other_error" THEN "startup_failed" ELSE "participant")
    /\ UNCHANGED <<registered, readiness>>

\* args.domain_participant().unwrap_or_else(|e| panic!(..))
CreateParticipant ==
    /\ pc = "participant"
    /\ \E ok \in BOOLEAN : StartupStep(IF ok THEN "assert_partition" ELSE "startup_failed")
    /\ UNCHANGED <<registered, readiness>>

\* assert!(args.partition.is_none(), ..)
AssertPartition ==
    /\ pc = "assert_partition"
    /\ StartupStep(IF args.partition THEN "startup_failed" ELSE "assert_interval")
    /\ UNCHANGED <<registered, readiness>>

\* assert!(args.interval.is_none(), ..)
AssertInterval ==
    /\ pc = "assert_interval"
    /\ StartupStep(IF args.interval THEN "startup_failed" ELSE "assert_ownership")
    /\ UNCHANGED <<registered, readiness>>

\* assert!(args.ownership_strength.is_none(), ..)
AssertOwnership ==
    /\ pc = "assert_ownership"
    /\ StartupStep(IF args.ownership_strength THEN "startup_failed" ELSE "topic")
    /\ UNCHANGED <<registered, readiness>>

\* domain_participant.create_topic(..).unwrap_or_else(|e| panic!(..))
CreateTopic ==
    /\ pc = "topic"
    /\ \E ok \in BOOLEAN : StartupStep(IF ok THEN "set_handler" ELSE "startup_failed")
    /\ UNCHANGED <<registered, readiness>>

\* ctrlc::set_handler(..).expect("Error setting Ctrl-C handler")
SetHandler ==
    /\ pc = "set_handler"
    /\ \E ok \in BOOLEAN : StartupStep(IF ok THEN "poll_new" ELSE "startup_failed")
    /\ UNCHANGED <<registered, readiness>>

\* let poll = Poll::new().unwrap(); let mut events = Events::with_capacity(4)
PollNew ==
    /\ pc = "poll_new"
    /\ \E ok \in BOOLEAN : StartupStep(IF ok THEN "register_stop" ELSE "startup_failed")
    /\ UNCHANGED <<registered, readiness>>

\* poll.register(&stop_receiver, STOP_PROGRAM, Ready::readable(), PollOpt::edge()).unwrap();
\* a signal already queued in the channel makes the new registration ready
RegisterStop ==
    /\ pc = "register_stop"
    /\ \E ok \in BOOLEAN :
         IF ok
         THEN /\ StartupStep("match_command")
              /\ registered' = Register(registered, STOP_PROGRAM)
              /\ readiness' = IF stop_receiver > 0
                              THEN readiness \cup {STOP_PROGRAM}
                              ELSE readiness
         ELSE /\ StartupStep("startup_failed")
              /\ UNCHANGED <<registered, readiness>>

\* match args.command { Command::Publish => todo!(), Command::Subscribe => todo!() }
MatchCommand ==
    /\ pc = "match_command"
    /\ args.command \in Commands
    /\ StartupStep("not_implemented")
    /\ UNCHANGED <<registered, readiness>>

InitMain ==
    /\ pc = "init_logging"
    /\ args \in [command : Commands, partition : BOOLEAN, interval : BOOLEAN,
                 ownership_strength : BOOLEAN]
    /\ registered = Unregistered
    /\ writer_opt = FALSE
    /\ reader_opt = FALSE
    /\ LoopStart
    /\ x_vel = 4 /\ y_vel = 4   \* (not drawn yet; the start-up statements do not use them)
    /\ env = EnvBudget(MaxEnvEvents, 0, 0)

Startup ==
    \/ InitLogging \/ CreateParticipant
    \/ AssertPartition \/ AssertInterval \/ AssertOwnership
    \/ CreateTopic \/ SetHandler \/ PollNew \/ RegisterStop \/ MatchCommand

NextMain == Startup \/ CtrlC

SpecMain == InitMain /\ [][NextMain]_vars

(***************************************************************************)
(* Progress of a subscriber: the main thread keeps running (weak fairness  *)
(* of its steps); the reader receives samples and may fail for good.       *)
(***************************************************************************)
InitLive ==
    /\ LoopStart
    /\ pc = "poll"
    /\ args = NoOptions("Subscribe")
    /\ registered = Register(Register(Register(Unregistered, STOP_PROGRAM), READER_READY),
                             READER_STATUS_READY)
    /\ writer_opt = is_publisher(args.command)
    /\ reader_opt = is_subscriber(args.command)
    /\ env = EnvBudget(MaxEnvEvents, MaxFailures, MaxClock)

LoopLive ==
    \/ PollReady \/ PollTimeout
    \/ DispatchReaderReady \/ TakeSample \/ TakeNone \/ TakeErr \/ TakeErrPrinted
    \/ DispatchDone \/ MoveStep \/ WriteStep

NextLive == SampleArrives \/ ReaderFails \/ LoopLive

SpecLive == InitLive /\ [][NextLive]_vars /\ WF_vars(LoopLive)

(***************************************************************************)
(* The dispatch of any poll result: the loop of either command, fed with   *)
(* every token in every order.                                             *)
(***************************************************************************)
InitDispatch ==
    /\ LoopStart
    /\ pc = "poll"
    /\ \E command \in Commands :
         /\ args = NoOptions(command)
         /\ writer_opt = is_publisher(command)
         /\ reader_opt = is_subscriber(command)
         /\ registered =
              IF is_publisher(command)
              THEN Register(Register(Unregistered, STOP_PROGRAM), WRITER_STATUS_READY)
              ELSE Register(Register(Register(Unregistered, STOP_PROGRAM), READER_READY),
                            READER_STATUS_READY)
    /\ env = EnvBudget(MaxDispatchEvents, MaxFailures, MaxDispatchClock)

NextDispatch ==
    \/ Environment
    \/ PollAnyTokens
    \/ DispatchStop \/ DispatchReaderReady \/ DispatchReaderStatus \/ DispatchWriterStatus
    \/ DispatchOther
    \/ TakeSample \/ TakeNone \/ TakeErr \/ TakeErrPrinted
    \/ ReaderTryRecvStatus \/ WriterTryRecvStatus
    \/ DispatchDone \/ MoveStep \/ WriteStep

SpecDispatch == InitDispatch /\ [][NextDispatch]_vars

(***************************************************************************)
(* The publish timer: a publisher whose loop is woken by timeouts and by   *)
(* writer status events, followed for a longer time.                       *)
(***************************************************************************)
InitTiming ==
    /\ LoopStart
    /\ pc = "poll"
    /\ args = NoOptions("Publish")
    /\ registered = Register(Register(Unregistered, STOP_PROGRAM), WRITER_STATUS_READY)
    /\ writer_opt = is_publisher(args.command)
    /\ reader_opt = is_subscriber(args.command)
    /\ env = EnvBudget(MaxTimingEvents, MaxFailures, MaxTimingClock)

NextTiming ==
    \/ WriterStatusArrives
    \/ PollReady \/ PollTimeout
    \/ DispatchWriterStatus \/ WriterTryRecvStatus
    \/ DispatchDone \/ MoveStep \/ WriteStep

SpecTiming == InitTiming /\ [][NextTiming]_vars

(***************************************************************************)
(* Properties of move_shape and of the motion of the shape.                *)
(***************************************************************************)
Abs(a) == IF a < 0 THEN -a ELSE a

FitsWidth(shape) == half_size(shape.shapesize) <= DA_WIDTH - half_size(shape.shapesize)

FitsHeight(shape) == half_size(shape.shapesize) <= DA_HEIGHT - half_size(shape.shapesize)

InsideWidth(shape) ==
    /\ half_size(shape.shapesize) <= shape.x
    /\ shape.x <= DA_WIDTH - half_size(shape.shapesize)

InsideHeight(shape) ==
    /\ half_size(shape.shapesize) <= shape.y
    /\ shape.y <= DA_HEIGHT - half_size(shape.shapesize)

\* c + v, as an integer, is below lo / above hi (written so that nothing overflows)
Below(c, v, lo) == v < lo - c

Above(c, v, hi) == v > hi - c

Returned == pc = "ret" /\ ~r.panicked

\* C3: for a shape whose x and y lie within [half_size, bound - half_size] and any
\* velocity pair, the x and y that move_shape returns lie within the same intervals.
C3_ReturnsInsideWalls ==
    (Returned /\ InsideWidth(shape_sample) /\ InsideHeight(shape_sample))
        => (InsideWidth(r.shape) /\ InsideHeight(r.shape))

\* a shape at the lower x wall and the upper y wall, pushed outwards, is put back
C3_Witness ==
    /\ Returned
    /\ InsideWidth(shape_sample) /\ InsideHeight(shape_sample)
    /\ shape_sample.shapesize = InitShapeSize
    /\ x_vel = -MaxVel /\ y_vel = MaxVel
    /\ shape_sample.x = half_size(InitShapeSize)
    /\ r.shape.x = half_size(InitShapeSize)
    /\ r.shape.y = DA_HEIGHT - half_size(InitShapeSize)

\* C4: in the loop, from the initial shape (0, 0, size 21) and any velocity of the
\* start-up draw, after every motion step the shape lies within the walls on both axes.
C4_ShapeStaysInsideWalls ==
    r # NoResult => (InsideWidth(shape_sample) /\ InsideHeight(shape_sample))

\* the shape has travelled to the far corner region: it sits on the upper y wall
C4_Witness ==
    /\ r # NoResult
    /\ shape_sample.y = DA_HEIGHT - half_size(InitShapeSize)
    /\ shape_sample.x > DA_WIDTH \div 2

\* C5 as stated (for the velocities whose i32 arithmetic does not overflow): for every
\* shape, a tentative coordinate below half_size returns half_size and the negated
\* velocity, one above bound - half_size returns bound - half_size and the negated
\* velocity, and each axis is independent of the other.
ReflectedLow(c, v, c_new, v_new, lo) ==
    Below(c, v, lo) => (c_new = lo /\ v # MinI32 /\ v_new = -v)

ReflectedHigh(c, v, c_new, v_new, hi) ==
    Above(c, v, hi) => (c_new = hi /\ v # MinI32 /\ v_new = -v)

\* the result for the same y, yv and size from another x and xv (and likewise for x)
OtherX == move_shape([shape_sample EXCEPT !.x = 0], 0, y_vel, FALSE)

OtherY == move_shape([shape_sample EXCEPT !.y = 0], x_vel, 0, FALSE)

AxesIndependent ==
    /\ r.shape.y = OtherX.shape.y /\ r.yv_new = OtherX.yv_new
    /\ r.shape.x = OtherY.shape.x /\ r.xv_new = OtherY.xv_new

C5_ReflectionLawAnyShape ==
    Returned =>
        LET hs == half_size(shape_sample.shapesize) IN
        /\ (~AddOverflows(shape_sample.x, x_vel) /\ ~NegOverflows(x_vel))
             => /\ ReflectedLow(shape_sample.x, x_vel, r.shape.x, r.xv_new, hs)
                /\ ReflectedHigh(shape_sample.x, x_vel, r.shape.x, r.xv_new, DA_WIDTH - hs)
        /\ (~AddOverflows(shape_sample.y, y_vel) /\ ~NegOverflows(y_vel))
             => /\ ReflectedLow(shape_sample.y, y_vel, r.shape.y, r.yv_new, hs)
                /\ ReflectedHigh(shape_sample.y, y_vel, r.shape.y, r.yv_new, DA_HEIGHT - hs)
        /\ AxesIndependent

\* C5 amended: the reflection law for a shape that fits between the walls of the axis
\* (half_size <= bound - half_size) and a velocity whose sum with the coordinate and
\* whose negation do not overflow i32; the axes are independent whenever move_shape returns.
C5_ReflectionLaw ==
    Returned =>
        LET hs == half_size(shape_sample.shapesize) IN
        /\ (FitsWidth(shape_sample) /\ ~AddOverflows(shape_sample.x, x_vel)
              /\ ~NegOverflows(x_vel))
             => /\ ReflectedLow(shape_sample.x, x_vel, r.shape.x, r.xv_new, hs)
                /\ ReflectedHigh(shape_sample.x, x_vel, r.shape.x, r.xv_new, DA_WIDTH - hs)
        /\ (FitsHeight(shape_sample) /\ ~AddOverflows(shape_sample.y, y_vel)
              /\ ~NegOverflows(y_vel))
             => /\ ReflectedLow(shape_sample.y, y_vel, r.shape.y, r.yv_new, hs)
                /\ ReflectedHigh(shape_sample.y, y_vel, r.shape.y, r.yv_new, DA_HEIGHT - hs)
        /\ AxesIndependent

\* the example of the specification: size 30, x = 14, xv = -5 gives x = 16, xv' = 5
C5_Witness ==
    /\ Returned
    /\ shape_sample.shapesize = 30 /\ shape_sample.x = 14 /\ x_vel = -5
    /\ r.shape.x = 16 /\ r.xv_new = 5

\* C6: when the tentative position is inside the walls on both axes, move_shape returns
\* x + xv and y + yv, both velocities unchanged, and the colour and size unchanged.
C6_FreeMove ==
    LET hs == half_size(shape_sample.shapesize) IN
    (/\ pc = "ret"
     /\ ~Below(shape_sample.x, x_vel, hs) /\ ~Above(shape_sample.x, x_vel, DA_WIDTH - hs)
     /\ ~Below(shape_sample.y, y_vel, hs) /\ ~Above(shape_sample.y, y_vel, DA_HEIGHT - hs))
        => /\ ~r.panicked
           /\ r.shape = [color     |-> shape_sample.color,
                         x         |-> shape_sample.x + x_vel,
                         y         |-> shape_sample.y + y_vel,
                         shapesize |-> shape_sample.shapesize]
           /\ r.xv_new = x_vel
           /\ r.yv_new = y_vel

\* the example of the specification: {BLUE, 120, 135, 30} with (3, -4) gives (123, 131)
C6_Witness ==
    /\ Returned
    /\ shape_sample = [color |-> "BLUE", x |-> 120, y |-> 135, shapesize |-> 30]
    /\ x_vel = 3 /\ y_vel = -4
    /\ r.shape.x = 123 /\ r.shape.y = 131 /\ r.xv_new = 3 /\ r.yv_new = -4

\* C7: the velocity drawn at start-up is non-zero and of magnitude 1 to 4 in each axis,
\* whichever sign is drawn.
C7_InitialVelocityMagnitude ==
    r = NoResult => (Abs(x_vel) \in 1 .. 4 /\ Abs(y_vel) \in 1 .. 4)

\* C8: over the iterations of the loop the velocity components are never zero and keep
\* their magnitudes; a component changes (its sign) only in a step in which the
\* tentative coordinate of its axis is beyond a wall.
VelocityStep ==
    LET hs == half_size(shape_sample.shapesize) IN
    /\ x_vel' # 0 /\ y_vel' # 0
    /\ Abs(x_vel') = Abs(x_vel) /\ Abs(y_vel') = Abs(y_vel)
    /\ x_vel' # x_vel
         => (Below(shape_sample.x, x_vel, hs) \/ Above(shape_sample.x, x_vel, DA_WIDTH - hs))
    /\ y_vel' # y_vel
         => (Below(shape_sample.y, y_vel, hs) \/ Above(shape_sample.y, y_vel, DA_HEIGHT - hs))

C8_VelocityMagnitudeInvariant == [][VelocityStep]_vars

\* the x velocity was reflected at the upper x wall while y moves freely
C8_Witness ==
    /\ r # NoResult
    /\ shape_sample.x = DA_WIDTH - half_size(InitShapeSize)
    /\ x_vel < 0
    /\ InsideHeight(shape_sample)
    /\ shape_sample.y # half_size(InitShapeSize)
    /\ shape_sample.y # DA_HEIGHT - half_size(InitShapeSize)

(***************************************************************************)
(* Properties of the control loop.                                         *)
(***************************************************************************)
\* the program is inside the for loop over the events of a poll
InDispatch == pc \in {"dispatch", "take", "take_err", "reader_status", "writer_status"}

C2_NoWorkAfterDelivery ==
    Delivered => (h.writes_after = 0 /\ h.drains_after = 0)

\* C2 amended: after the send the loop attempts at most one write, that of the iteration
\* in progress (none after the next poll has returned), and it drains after that poll
\* only for sources dispatched before STOP_PROGRAM; after STOP_PROGRAM is dispatched
\* nothing is written or drained.
C2_WorkAfterDeliveryBounded ==
    /\ h.writes_after <= 1
    /\ h.late_writes = 0
    /\ (Delivered /\ h.polls_after > 0
          /\ pc \in {"take", "take_err", "reader_status", "writer_status"})
         => STOP_PROGRAM \in Range(events)
    /\ (Delivered /\ h.polls_after > 0 /\ ~(STOP_PROGRAM \in Range(events)))
         => pc = "stopped"

\* a write after the send (the iteration in progress) and a drain in the dispatch of
\* the next poll's result, before STOP_PROGRAM
C2_Witness ==
    /\ pc = "stopped"
    /\ h.writes_after = 1
    /\ h.late_drains > 0

\* the ids of the samples a take loop has read, in the order read
SampleIds(log) ==
    LET reads == SelectSeq(log, LAMBDA e : e[1] = "sample")
    IN  [i \in 1 .. Len(reads) |-> reads[i][2]]

NoneReads(log) == {i \in DOMAIN log : log[i][1] = "none"}

\* C9: the take loop of a READER_READY wake-up reads the samples buffered at the wake-up
\* (and any that arrive while it runs) in arrival order, each once, then reads one
\* no-more-data and stops; with k buffered and none arriving that is k sample reads.
C9_DrainReadsAllInOrder ==
    /\ pc \in {"take", "take_err"}
         => /\ SampleIds(h.drain_log) \o reader_buf = h.wake_buf \o h.drain_arrivals
            /\ NoneReads(h.drain_log) = {}
    /\ (pc \notin {"take", "take_err"} /\ h.drain_log # <<>>)
         => /\ SampleIds(h.drain_log) = h.wake_buf \o h.drain_arrivals
            /\ NoneReads(h.drain_log) = {Len(h.drain_log)}
            /\ h.drain_arrivals = <<>> => Len(SampleIds(h.drain_log)) = Len(h.wake_buf)

\* two samples were buffered at one wake-up: two reads in order, then no-more-data
C9_Witness ==
    /\ pc = "dispatch"
    /\ h.wake_buf = <<1, 2>>
    /\ h.drain_arrivals = <<>>
    /\ h.drain_log = << <<"sample", 1>>, <<"sample", 2>>, <<"none", 0>> >>
    /\ reader_buf = <<>>

NoFailures == env.failures = MaxFailures

\* C10 as stated: after any number of iterations of a publisher without failures the
\* number of successful writes is floor(elapsed / 200 ms) plus or minus 1.
C10_CadenceWithinOne ==
    (pc = "poll" /\ writer_opt /\ NoFailures)
        => Abs(h.n_writes - (clock \div PublishIntervalMs)) <= 1

\* C10 amended: the number of successful writes is at most floor(elapsed / 200 ms), and
\* at the end of an iteration the last write attempt is at most 200 ms old.
C10_WritesBoundedByInterval ==
    writer_opt =>
        /\ h.n_writes <= clock \div PublishIntervalMs
        /\ last_write <= clock
        /\ pc = "poll" => clock - last_write <= PublishIntervalMs

\* four intervals have elapsed without a failure and two writes were made
C10_Witness ==
    /\ pc = "poll"
    /\ NoFailures
    /\ clock \div PublishIntervalMs = 4
    /\ h.n_writes = 2

(***************************************************************************)
(* Properties of the write step and of error handling.                     *)
(***************************************************************************)
\* C11: a failed write does not reset the publish timer: last_write changes only in a
\* step in which a write succeeds.
TimerSetOnlyOnSuccess == last_write' # last_write => h'.n_writes = h.n_writes + 1

C11_FailedWriteKeepsTimer == [][TimerSetOnlyOnSuccess]_vars

\* C12: no error inside the loop terminates the process: after a failing wait, take,
\* write, status-receive or shutdown-channel receive the loop is still running; the
\* process ends only by the return after Ctrl-C (or by a failed construction at start-up).
C12_NoLoopErrorTerminates ==
    pc \in EndpointPcs \cup LoopPcs \cup {"stopped", "startup_failed"}

(***************************************************************************)
(* Properties of the states of the program.                                *)
(***************************************************************************)
\* the start-up statements have all succeeded (the command is being or has been matched)
StartupSucceeded == pc \notin (StartupPcs \ {"match_command"}) \cup {"startup_failed"}

\* C13: for each command, once start-up has succeeded the program enters the control
\* loop (RUNNING), and it leaves RUNNING only for STOPPED, on receipt of the signal.
C13_RunningUntilStopped ==
    /\ (StartupSucceeded /\ pc # "match_command")
         => pc \in EndpointPcs \cup LoopPcs \cup {"stopped"}
    /\ pc = "stopped" => Delivered

\* C14: no operation of the loop blocks for ever: every dispatch terminates, the take
\* loop too, even when take_next_sample returns errors, so an iteration that has begun
\* reaches the next wait (or the loop stops).
C14_IterationCompletes ==
    (pc \in LoopPcs \ {"poll"}) ~> (pc \in {"poll", "stopped"})

(***************************************************************************)
(* Properties of the steps of an iteration.                                *)
(***************************************************************************)
\* the next step of the loop dispatches STOP_PROGRAM and the signal is in the channel
StopDispatched ==
    pc = "dispatch" /\ events # <<>> /\ Head(events) = STOP_PROGRAM /\ stop_receiver > 0

\* C15: when STOP_PROGRAM is dispatched and the signal is received, that step ends the
\* loop: the events after it in the same poll result stay undispatched, the motion step
\* and the write step of the iteration are not executed, and nothing happens in STOPPED.
StopExitsImmediately ==
    /\ (StopDispatched /\ pc' # pc)
         => /\ pc' = "stopped"
            /\ events' = events
            /\ stop_receiver' = stop_receiver - 1
            /\ UNCHANGED <<motion_vars, last_write, reader_buf, reader_status, writer_status>>
            /\ h'.iter_moves = 0 /\ h'.n_attempts = h.n_attempts
    /\ pc' = "stopped" => (StopDispatched \/ pc = "stopped")
    /\ pc = "stopped" => UNCHANGED vars

C15_StopExitsImmediately == [][StopExitsImmediately]_vars

\* the loop stopped on the first of three events: two ready sources were left undispatched
C15_Witness ==
    /\ pc = "stopped"
    /\ Len(events) = 3
    /\ Head(events) = STOP_PROGRAM
    /\ h.iter_events = 3
    /\ h.iter_moves = 0

\* C16: every iteration that does not stop executes the motion step exactly once, after
\* the dispatch of the poll result (events or a bare timeout) and before the write step;
\* the step calls move_shape on the current shape and velocity, and the shape and
\* velocity it returns are the current state until the motion step of the next iteration.
MotionOncePerIteration ==
    /\ (pc = "move" /\ pc' # pc)
         => /\ pc' = "write"
            /\ r' = move_shape(shape_sample, x_vel, y_vel, overflow_checks)
            /\ h.iter_moves = 0 /\ h'.iter_moves = 1
    /\ (pc = "write" /\ pc' # pc) => (pc' = "poll" /\ h.iter_moves = 1)
    /\ (InDispatch /\ pc' \notin {pc, "stopped"}) => (InDispatch' \/ pc' = "move")
    /\ pc # "move" => UNCHANGED motion_vars
    /\ r' # NoResult
         => (shape_sample' = r'.shape /\ x_vel' = r'.xv_new /\ y_vel' = r'.yv_new)

C16_MotionOncePerIteration == [][MotionOncePerIteration]_vars

\* after an iteration that was a bare timeout, an iteration whose poll returned two
\* events has moved the shape once
C16_Witness ==
    /\ pc = "write"
    /\ clock = PollTimeoutMs + 1
    /\ h.iter_events = 2
    /\ h.iter_moves = 1
    /\ shape_sample = r.shape

\* the next step of the loop dispatches an event whose token is not STOP_PROGRAM
DispatchesOther == pc = "dispatch" /\ events # <<>> /\ Head(events) # STOP_PROGRAM

\* ... and the token is one whose endpoint is absent, or an unknown token
NothingToDrain ==
    \/ Head(events) \in {READER_READY, READER_STATUS_READY} /\ ~reader_opt
    \/ Head(events) = WRITER_STATUS_READY /\ ~writer_opt
    \/ Head(events) \notin Tokens

\* C17: the dispatch of a READER_READY, READER_STATUS_READY or WRITER_STATUS_READY event,
\* of an event whose endpoint is absent and of an unknown token changes neither the
\* shape, the velocity nor last_write and does not end the loop; for an absent endpoint
\* or an unknown token nothing is drained at all; a status drain goes on until
\* try_recv_status returns None (the queue is empty).
DispatchFrame ==
    /\ (DispatchesOther \/ pc \in {"take", "take_err", "reader_status", "writer_status"})
         => /\ UNCHANGED <<shape_sample, x_vel, y_vel, r, last_write>>
            /\ pc' \in {"dispatch", "take", "take_err", "reader_status", "writer_status"}
    /\ (DispatchesOther /\ NothingToDrain /\ events' # events)
         => /\ pc' = "dispatch"
            /\ events' = Tail(events)
            /\ UNCHANGED <<stop_receiver, reader_buf, reader_status, writer_status>>
    /\ (pc = "reader_status" /\ pc' # pc) => (reader_status = 0 /\ pc' = "dispatch")
    /\ reader_status' < reader_status
         => (pc = "reader_status" /\ pc' = pc /\ reader_status' = reader_status - 1)
    /\ (pc = "writer_status" /\ pc' # pc) => (writer_status = 0 /\ pc' = "dispatch")
    /\ writer_status' < writer_status
         => (pc = "writer_status" /\ pc' = pc /\ writer_status' = writer_status - 1)

C17_DispatchFrame == [][DispatchFrame]_vars

\* a publisher has dispatched READER_READY (its reader is absent) and an unknown token:
\* the shape is where it was, the timer too, and the loop goes on
C17_Witness ==
    /\ pc = "dispatch"
    /\ events = <<>>
    /\ h.iter_tokens = <<READER_READY, OtherToken>>
    /\ ~reader_opt
    /\ shape_sample = InitShape("BLUE")
    /\ last_write = 0

\* this step calls writer.write
WriteAttempted == h'.n_attempts = h.n_attempts + 1

\* C18: the write step of an iteration attempts a write if and only if there is a writer
\* and last_write + 200 ms lies before now; writes are attempted in the write step only
\* (once per iteration), an attempt comes at least 200 ms after the one before it, and
\* without a writer no write is attempted.
WriteRule ==
    /\ (pc = "write" /\ pc' # pc)
         => (WriteAttempted <=> (writer_opt /\ last_write + PublishIntervalMs < clock))
    /\ h'.n_attempts # h.n_attempts => (WriteAttempted /\ pc = "write" /\ pc' = "poll")
    /\ (WriteAttempted /\ h.attempt_at # <<>>)
         => clock - h.attempt_at[1] >= PublishIntervalMs
    /\ WriteAttempted => h'.attempt_at = <<clock>>
    /\ ~writer_opt' => h'.n_attempts = 0

C18_WriteWhenIntervalElapsed == [][WriteRule]_vars

\* a publisher has attempted two writes, the second 201 ms after the first
C18_Witness ==
    /\ pc = "poll"
    /\ writer_opt
    /\ h.n_attempts = 2
    /\ h.attempt_at = <<2 * (PollTimeoutMs + 1)>>
    /\ last_write = clock

(***************************************************************************)
(* Properties of the registrations.                                        *)
(***************************************************************************)
\* the loop has been entered
LoopEntered == pc \in LoopPcs \cup {"stopped", "panicked"}

\* C19 as stated: four distinct tokens are defined, and once the loop is entered each of
\* them has been registered exactly once.
C19_EachTokenRegisteredOnce ==
    /\ Cardinality(Tokens) = 4
    /\ LoopEntered => \A t \in Tokens : registered[t] = 1

\* C19 amended: four distinct tokens are defined; none is ever registered twice; in the
\* loop STOP_PROGRAM is registered once, READER_READY and READER_STATUS_READY once if
\* there is a reader and not at all otherwise, WRITER_STATUS_READY once if there is a
\* writer and not at all otherwise (so nothing is registered while the loop runs).
C19_TokensRegisteredAtMostOnce ==
    /\ Cardinality(Tokens) = 4
    /\ \A t \in Tokens : registered[t] <= 1
    /\ LoopEntered =>
         /\ registered[STOP_PROGRAM] = 1
         /\ registered[READER_READY] = (IF reader_opt THEN 1 ELSE 0)
         /\ registered[READER_STATUS_READY] = (IF reader_opt THEN 1 ELSE 0)
         /\ registered[WRITER_STATUS_READY] = (IF writer_opt THEN 1 ELSE 0)

\* a subscriber in its second iteration: three tokens registered once, the writer's never
C19_Witness ==
    /\ pc = "take"
    /\ clock > PollTimeoutMs
    /\ reader_opt
    /\ registered[READER_READY] = 1 /\ registered[READER_STATUS_READY] = 1
    /\ registered[STOP_PROGRAM] = 1 /\ registered[WRITER_STATUS_READY] = 0

(***************************************************************************)
(* Shapes too large for the drawing area.                                  *)
(***************************************************************************)
\* the i32 negation of v: -v, and i32::MIN for v = i32::MIN when the build wraps
NegatedOnce(v, v_new) == IF v = MinI32 THEN v_new = MinI32 ELSE v_new = -v

\* both wall checks of an axis fire: the coordinate ends on the upper clamp, below
\* half_size, and the velocity is the negated input
DoubleClamp(c, v, c_new, v_new, hs, bound) ==
    (hs > bound - hs /\ Below(c, v, hs))
        => (c_new = bound - hs /\ c_new < hs /\ NegatedOnce(v, v_new))

\* C20: for a shape with half_size > bound - half_size and a tentative coordinate below
\* half_size, move_shape returns the coordinate bound - half_size and the velocity -v.
C20_LargeShapeDoubleClamp ==
    Returned =>
        LET hs == half_size(shape_sample.shapesize) IN
        /\ DoubleClamp(shape_sample.x, x_vel, r.shape.x, r.xv_new, hs, DA_WIDTH)
        /\ DoubleClamp(shape_sample.y, y_vel, r.shape.y, r.yv_new, hs, DA_HEIGHT)

\* size 250 (half_size 126 > 240 - 126): x = 120 and xv = -5 give x = 114 and xv' = 5
C20_Witness ==
    /\ Returned
    /\ shape_sample.shapesize = 250 /\ shape_sample.x = 120 /\ x_vel = -5
    /\ r.shape.x = 114 /\ r.xv_new = 5

====
